---- MODULE Spec2Model ----
(***************************************************************************)
(* Model of the AI Story Studio backend: the story session table, the five *)
(* HTTP handlers that read and write it, and the three services that call  *)
(* the text model and the image model.                                     *)
(*                                                                         *)
(* Three specifications share the module:                                  *)
(*   Spec      the handlers running concurrently over the session table    *)
(*   SpecText  generateLinearStory / refineStory applied to every model    *)
(*             response of the bounded response space                      *)
(*   SpecFan   the two image fan-outs (suggestStyles, generateFinalImages) *)
(*             with the image calls completing in any order                *)
(***************************************************************************)
EXTENDS Integers, Sequences, FiniteSets, TLC

VARIABLES sessions, req, txt, fan

vars == <<sessions, req, txt, fan>>

(***************************************************************************)
(* Bounds of the model.                                                    *)
(***************************************************************************)
\* longest array of arbitrary elements a model response carries
MaxLen == 2

(***************************************************************************)
(* Constants of the program.                                               *)
(***************************************************************************)
MinBriefingLength == 10
MinSceneCount == 2
MaxSceneCount == 10
MinPromptLength == 5
MinImagePromptLength == 10
MinRefinementLength == 5
StyleCount == 3

(***************************************************************************)
(* JavaScript values.  Every value is a record of one shape, so that any   *)
(* two values can be compared:                                             *)
(*   t  the kind: undefined, null, boolean, number, string, url (a string  *)
(*      that is URL shaped), object (a plain object), array                *)
(*   n  the number, the truth value (0/1) or the string's length           *)
(*   a  the elements of an array                                           *)
(*   o  the own properties of a plain object                               *)
(***************************************************************************)
NoProps == [k \in {} |-> 0]

Undefined == [t |-> "undefined", n |-> 0, a |-> <<>>, o |-> NoProps]
Null == [t |-> "null", n |-> 0, a |-> <<>>, o |-> NoProps]
Bool(b) == [t |-> "boolean", n |-> IF b THEN 1 ELSE 0, a |-> <<>>, o |-> NoProps]
Num(n) == [t |-> "number", n |-> n, a |-> <<>>, o |-> NoProps]
Str(n) == [t |-> "string", n |-> n, a |-> <<>>, o |-> NoProps]
Url(k) == [t |-> "url", n |-> k, a |-> <<>>, o |-> NoProps]
Obj(o) == [t |-> "object", n |-> 0, a |-> <<>>, o |-> o]
Arr(a) == [t |-> "array", n |-> 0, a |-> a, o |-> NoProps]

\* Array.isArray(v)
IsArray(v) == v.t = "array"

\* the truthiness of v, as in `if (!content)` and `value ? ... : null`
Truthy(v) ==
  CASE v.t \in {"undefined", "null"} -> FALSE
    [] v.t \in {"boolean", "number", "string"} -> v.n # 0
    [] OTHER -> TRUE

\* a property read v.x throws a TypeError on undefined and null
Throws(v) == v.t \in {"undefined", "null"}

\* v.length, for a v on which the read does not throw
Length(v) ==
  CASE v.t = "array" -> Num(Len(v.a))
    [] v.t = "string" -> Num(v.n)
    [] OTHER -> Undefined

\* v[key] for a property name, for a v on which the read does not throw
Get(v, key) ==
  IF v.t = "object" /\ key \in DOMAIN v.o THEN v.o[key] ELSE Undefined

\* v[i] for a 0-based index, for a v on which the read does not throw;
\* a string of the model has no particular characters: its i-th is a
\* one-character string
Index(v, i) ==
  CASE v.t = "array" /\ i < Len(v.a) -> v.a[i + 1]
    [] v.t \in {"string", "url"} /\ i < v.n -> Str(1)
    [] OTHER -> Undefined

(***************************************************************************)
(* StoryScene and the other elements a "story" array may hold.             *)
(***************************************************************************)
SceneKeys ==
  {"id", "narrator", "character", "characterImagePrompt", "dialogue",
   "backgroundPrompt"}

\* a scene with all six fields; its texts are told apart by i
Scene(i) ==
  Obj([k \in SceneKeys |-> IF k = "id" THEN Num(i) ELSE Str(i)])

\* an object that lacks five of the six fields
PartialScene == Obj([k \in {"id"} |-> Num(1)])

IsScene(v) ==
  /\ v.t = "object"
  /\ DOMAIN v.o = SceneKeys
  /\ v.o["id"].t = "number"
  /\ \A k \in SceneKeys \ {"id"} : v.o[k].t \in {"string", "url"}

\* a well-formed sequence of Scene
IsSceneList(v) == IsArray(v) /\ \A i \in 1..Len(v.a) : IsScene(v.a[i])

RECURSIVE SeqsUpTo(_, _)
SeqsUpTo(S, n) ==
  IF n = 0 THEN {<<>>}
  ELSE LET shorter == SeqsUpTo(S, n - 1)
       IN shorter \cup {Append(s, e) : s \in {q \in shorter : Len(q) = n - 1}, e \in S}

\* the array of scenes 1..n
SceneList(n) == Arr([i \in 1..n |-> Scene(i)])

(***************************************************************************)
(* The content of a chat completion: null or "" (empty), a string that is  *)
(* not JSON (garbage), or a JSON text that parses to root.                 *)
(***************************************************************************)
EmptyContent == [c |-> "empty", root |-> Undefined]
GarbageContent == [c |-> "garbage", root |-> Undefined]
Json(root) == [c |-> "json", root |-> root]

\* JSON.parse(content): throws a SyntaxError on a text that is not JSON
JSONparse(content) ==
  IF content.c = "json" THEN [ok |-> TRUE, value |-> content.root]
  ELSE [ok |-> FALSE, value |-> Undefined]

\* what the story model may put under "story": elements of every kind
StoryElems == {Scene(1), Scene(2), PartialScene, Num(7), Null}

\* values that are not arrays
NonArrays == {Null, Num(0), Num(5), Str(0), Str(2), Bool(FALSE), Bool(TRUE),
              Obj(NoProps)}

\* arrays of any elements up to MaxLen, and scene lists of every length a
\* sceneCount can ask for, one more and one less
StoryArrays ==
  {Arr(s) : s \in SeqsUpTo(StoryElems, MaxLen)}
    \cup {SceneList(n) : n \in 0..(MaxSceneCount + 1)}

\* the roots a text that parses can have: null, a scalar, an object with
\* no "story" key, an object with a "story" key
StoryRoots(values) ==
  {Null, Num(1), Obj(NoProps)} \cup {Obj([k \in {"story"} |-> v]) : v \in values}

StoryContents(values) ==
  {EmptyContent, GarbageContent} \cup {Json(r) : r \in StoryRoots(values)}

(***************************************************************************)
(* StoryGeneratorService.  A call returns [ok, value, warned]: ok is FALSE *)
(* when the call throws, warned tells whether console.warn ran.            *)
(***************************************************************************)
Thrown == [ok |-> FALSE, value |-> Undefined, warned |-> FALSE]
Returned(v, w) == [ok |-> TRUE, value |-> v, warned |-> w]

generateLinearStoryNoCount(content, sceneCount) ==
  IF content.c = "empty" THEN Thrown
  ELSE LET parsedResponse == JSONparse(content)
       IN IF ~parsedResponse.ok \/ Throws(parsedResponse.value) THEN Thrown
          ELSE LET storyArray == Get(parsedResponse.value, "story")
               IN IF ~IsArray(storyArray) THEN Thrown
                  ELSE Returned(storyArray, FALSE)

generateLinearStory(content, sceneCount) ==
  IF content.c = "empty" THEN Thrown
  ELSE LET parsedResponse == JSONparse(content)
       IN IF ~parsedResponse.ok \/ Throws(parsedResponse.value) THEN Thrown
          ELSE LET storyArray == Get(parsedResponse.value, "story")
               IN IF ~IsArray(storyArray) \/ Length(storyArray) # Num(sceneCount)
                  THEN Thrown
                  ELSE Returned(storyArray, FALSE)

refineStoryStrict(existingStory, content) ==
  IF Throws(existingStory) \/ content.c = "empty" THEN Thrown
  ELSE LET sceneCount == Length(existingStory)
           parsedResponse == JSONparse(content)
       IN IF ~parsedResponse.ok \/ Throws(parsedResponse.value) THEN Thrown
          ELSE LET storyArray == Get(parsedResponse.value, "story")
               IN IF ~IsArray(storyArray) \/ Length(storyArray) # sceneCount
                  THEN Thrown
                  ELSE Returned(storyArray, FALSE)

\* existingStory.length is read before the try block: a TypeError there
\* leaves the call as an error too
refineStory(existingStory, content) ==
  IF Throws(existingStory) \/ content.c = "empty" THEN Thrown
  ELSE LET sceneCount == Length(existingStory)
           parsedResponse == JSONparse(content)
       IN IF ~parsedResponse.ok \/ Throws(parsedResponse.value) THEN Thrown
          ELSE LET storyArray == Get(parsedResponse.value, "story")
               IN IF ~IsArray(storyArray) \/ Length(storyArray) # sceneCount
                  THEN \* console.warn reads storyArray.length for its argument
                       IF Throws(storyArray) THEN Thrown
                       ELSE Returned(storyArray, TRUE)
                  ELSE Returned(storyArray, FALSE)

(***************************************************************************)
(* The idle values of the call records of SpecText and SpecFan.            *)
(***************************************************************************)
TxtIdle == [pc |-> "off", fn |-> "none", sceneCount |-> 0,
            existingStory |-> Undefined, content |-> EmptyContent, out |-> Thrown]

\* the story a session can hold when refineStory is called on it
ExistingStories == StoryArrays \cup {v \in NonArrays : Truthy(v)}

FanIdle == [stage |-> "none", pc |-> "off", input |-> Undefined, items |-> <<>>,
            promises |-> <<>>, order |-> <<>>, textCalls |-> 0, imageCalls |-> 0,
            textOut |-> Undefined, out |-> Undefined]

(***************************************************************************)
(* Image calls.  openai.images.generate returns a promise; it is pending,  *)
(* fulfilled with a response, or rejected.  A response is modelled by what *)
(* `response.data?.[0]?.url` reads from it: the URL, or undefined.  The    *)
(* URL the i-th call of a batch produces is Url(i).                        *)
(***************************************************************************)
Pending == [st |-> "pending", url |-> Undefined]
Fulfilled(url) == [st |-> "fulfilled", url |-> url]
Rejected == [st |-> "rejected", url |-> Undefined]

\* the ways the i-th image call can settle
Settlements(i) == {Fulfilled(Url(i)), Fulfilled(Undefined), Rejected}

PromiseAllByCompletion(promises, order) ==
  [k \in 1..Len(promises) |-> promises[order[k]].url]

\* await Promise.all(promises), once every promise is fulfilled: the
\* responses by position, whatever the order the promises settled in
PromiseAll(promises, order) ==
  [k \in 1..Len(promises) |-> promises[k].url]

\* the first element of items on which a property read throws, or 0;
\* Array.map stops there, with the calls for the elements before it issued
FirstThrowing(items) ==
  IF \E i \in 1..Len(items) : Throws(items[i])
  THEN CHOOSE i \in 1..Len(items) :
         Throws(items[i]) /\ \A j \in 1..(i - 1) : ~Throws(items[j])
  ELSE 0

\* { ...v, <extra> }: the own properties of v, then those of extra
Spread(v, extra) ==
  LET own == IF v.t = "object" THEN v.o ELSE NoProps
  IN Obj([k \in DOMAIN own \cup DOMAIN extra |->
            IF k \in DOMAIN extra THEN extra[k] ELSE own[k]])

(***************************************************************************)
(* ArtStyleService.                                                        *)
(***************************************************************************)
Style(i) ==
  Obj([k \in {"name", "description", "imagePrompt"} |-> Str(i)])

StyleElems == {Style(1), Num(7), Null}

\* what the style model may put under "artStyles": three elements of any
\* kind, two or four styles, or no array at all
StyleValues ==
  {Arr(s) : s \in {q \in SeqsUpTo(StyleElems, StyleCount) : Len(q) = StyleCount}}
    \cup {Arr([i \in 1..n |-> Style(1)]) : n \in {StyleCount - 1, StyleCount + 1}}
    \cup {Null, Num(5), Obj(NoProps)}

StyleContents ==
  {EmptyContent, GarbageContent}
    \cup {Json(r) : r \in {Null, Obj(NoProps)}
                         \cup {Obj([k \in {"artStyles"} |-> v]) : v \in StyleValues}}

\* buildPrompt reads firstScene.narrator before the text call is made
generateStylePrompts(firstScene, content) ==
  IF Throws(firstScene) \/ content.c = "empty" THEN Thrown
  ELSE LET parsedResponse == JSONparse(content)
       IN IF ~parsedResponse.ok \/ Throws(parsedResponse.value) THEN Thrown
          ELSE LET styles == Get(parsedResponse.value, "artStyles")
               IN IF ~IsArray(styles) \/ Length(styles) # Num(StyleCount)
                  THEN Thrown
                  ELSE Returned(styles, FALSE)

finalSuggestionsPartial(stylePrompts, imageResults) ==
  LET kept == SelectSeq([i \in 1..Len(stylePrompts) |->
                           Spread(stylePrompts[i],
                                  [k \in {"imageUrl"} |-> imageResults[i]])],
                        LAMBDA x : Truthy(Get(x, "imageUrl")))
  IN Returned(Arr(kept), FALSE)

\* step 3 of suggestStyles: stylePrompts.map((style, index) => ...)
finalSuggestions(stylePrompts, imageResults) ==
  IF \E i \in 1..Len(stylePrompts) : ~Truthy(imageResults[i]) THEN Thrown
  ELSE Returned(Arr([i \in 1..Len(stylePrompts) |->
                       Spread(stylePrompts[i],
                              [k \in {"imageUrl"} |-> imageResults[i]])]),
                FALSE)

(***************************************************************************)
(* FinalStoryService.                                                      *)
(***************************************************************************)
\* a plain text answer: empty, only white space, or some text
BlankContent == [c |-> "blank", root |-> Str(3)]
TextContent == [c |-> "text", root |-> Str(9)]
PromptContents == {EmptyContent, BlankContent, TextContent}

\* newPrompt.trim()
trim(content) == IF content.c = "blank" THEN Str(0) ELSE content.root

createConsistencyPrompt(content) ==
  IF content.c = "empty" THEN Thrown ELSE Returned(trim(content), FALSE)

finalizedScenesIdOnly(scenes, imageResults) ==
  IF \E i \in 1..Len(scenes) : ~Truthy(imageResults[i]) THEN Thrown
  ELSE Returned(Arr([i \in 1..Len(scenes) |->
                       Obj([k \in {"id", "characterImagePrompt", "backgroundPrompt"} |->
                              CASE k = "id" -> Get(scenes[i], "id")
                                [] k = "characterImagePrompt" -> imageResults[i]
                                [] OTHER -> Str(0)])]),
                FALSE)

finalizedScenesKeepBackground(scenes, imageResults) ==
  IF \E i \in 1..Len(scenes) : ~Truthy(imageResults[i]) THEN Thrown
  ELSE Returned(Arr([i \in 1..Len(scenes) |->
                       Spread(scenes[i],
                              [k \in {"characterImagePrompt"} |-> imageResults[i]])]),
                FALSE)

\* the last step of generateFinalImages: scenes.map((scene, index) => ...)
finalizedScenes(scenes, imageResults) ==
  IF \E i \in 1..Len(scenes) : ~Truthy(imageResults[i]) THEN Thrown
  ELSE Returned(Arr([i \in 1..Len(scenes) |->
                       Spread(scenes[i],
                              [k \in {"characterImagePrompt", "backgroundPrompt"} |->
                                 IF k = "characterImagePrompt" THEN imageResults[i]
                                 ELSE Str(0)])]),
                FALSE)

(***************************************************************************)
(* SpecFan: suggestStyles and generateFinalImages, one call of either,     *)
(* with the image calls of the batch settling one by one in any order.     *)
(*   stage       the method called                                         *)
(*   pc          text (awaiting the text call), images (awaiting           *)
(*               Promise.all), returned, thrown                            *)
(*   input       firstScene, respectively scenes                           *)
(*   items       stylePrompts, respectively scenes, once the map has run   *)
(*   promises    imageGenerationPromises                                   *)
(*   order       the indices of the settled promises, in settling order    *)
(*   textCalls, imageCalls   the calls issued so far                       *)
(*   textOut     stylePrompts, respectively consistencyPrompt, once the    *)
(*               text step has returned                                    *)
(*   out         the value returned                                        *)
(***************************************************************************)
FirstScenes == {Scene(1), PartialScene, Num(7), Undefined}

\* what currentStoryState can hold when generateFinalImages is called
FanScenes ==
  {Arr(s) : s \in SeqsUpTo(StoryElems, MaxLen)} \cup {Num(5), Obj(NoProps)}

\* the state when the method is called: buildPrompt has read firstScene
\* (a TypeError when there is none) and the text call is out
FanInit ==
  /\ sessions = <<>>
  /\ req = <<>>
  /\ txt = TxtIdle
  /\ fan \in
       {[stage |-> st, pc |-> IF Throws(in) THEN "thrown" ELSE "text",
         input |-> in, items |-> <<>>, promises |-> <<>>, order |-> <<>>,
         textCalls |-> IF Throws(in) THEN 0 ELSE 1,
         imageCalls |-> 0, textOut |-> Undefined, out |-> Undefined] :
          st \in {"suggestStyles"}, in \in FirstScenes}
       \cup
       {[stage |-> st, pc |-> "text", input |-> in, items |-> <<>>,
         promises |-> <<>>, order |-> <<>>, textCalls |-> 1,
         imageCalls |-> 0, textOut |-> Undefined, out |-> Undefined] :
          st \in {"generateFinalImages"}, in \in FanScenes}

\* items.map((item) => openai.images.generate(...)): the promises, or a
\* TypeError part of the way through
IssueImageCalls(f, items) ==
  IF FirstThrowing(items) # 0
  THEN [f EXCEPT !.pc = "thrown", !.imageCalls = FirstThrowing(items) - 1]
  ELSE [f EXCEPT !.pc = "images", !.items = items,
                 !.promises = [i \in 1..Len(items) |-> Pending],
                 !.imageCalls = Len(items)]

\* suggestStyles, steps 1 and 2: the text call answers, the map runs
SuggestStylesText(content) ==
  /\ fan.stage = "suggestStyles" /\ fan.pc = "text"
  /\ LET stylePrompts == generateStylePrompts(fan.input, content)
     IN fan' = IF ~stylePrompts.ok THEN [fan EXCEPT !.pc = "thrown"]
               ELSE IssueImageCalls([fan EXCEPT !.textOut = stylePrompts.value],
                                    stylePrompts.value.a)
  /\ UNCHANGED <<sessions, req, txt>>

\* generateFinalImages, steps 1 and 2; scenes.map is a TypeError when
\* scenes is not an array
FinalImagesText(content) ==
  /\ fan.stage = "generateFinalImages" /\ fan.pc = "text"
  /\ LET consistencyPrompt == createConsistencyPrompt(content)
     IN fan' = IF ~consistencyPrompt.ok THEN [fan EXCEPT !.pc = "thrown"]
               ELSE IF ~IsArray(fan.input)
               THEN [fan EXCEPT !.pc = "thrown", !.textOut = consistencyPrompt.value]
               ELSE IssueImageCalls([fan EXCEPT !.textOut = consistencyPrompt.value],
                                    fan.input.a)
  /\ UNCHANGED <<sessions, req, txt>>

\* one image call settles; once a call is rejected Promise.all has
\* rejected, and what the other calls do is no longer looked at
ImageSettles(i, s) ==
  /\ fan.pc = "images"
  /\ i \in 1..Len(fan.promises)
  /\ fan.promises[i] = Pending
  /\ \A j \in 1..Len(fan.promises) : fan.promises[j] # Rejected
  /\ fan' = [fan EXCEPT !.promises[i] = s, !.order = Append(@, i)]
  /\ UNCHANGED <<sessions, req, txt>>

\* await Promise.all(...) rejects
AwaitImagesRejected ==
  /\ fan.pc = "images"
  /\ \E j \in 1..Len(fan.promises) : fan.promises[j] = Rejected
  /\ fan' = [fan EXCEPT !.pc = "thrown"]
  /\ UNCHANGED <<sessions, req, txt>>

\* await Promise.all(...) resumes, and the last map runs
AwaitImagesFulfilled ==
  /\ fan.pc = "images"
  /\ \A j \in 1..Len(fan.promises) : fan.promises[j].st = "fulfilled"
  /\ LET imageResults == PromiseAll(fan.promises, fan.order)
         result == IF fan.stage = "suggestStyles"
                   THEN finalSuggestions(fan.items, imageResults)
                   ELSE finalizedScenes(fan.items, imageResults)
     IN fan' = IF result.ok
               THEN [fan EXCEPT !.pc = "returned", !.out = result.value]
               ELSE [fan EXCEPT !.pc = "thrown"]
  /\ UNCHANGED <<sessions, req, txt>>

FanNext ==
  \/ \E content \in StyleContents : SuggestStylesText(content)
  \/ \E content \in PromptContents : FinalImagesText(content)
  \/ \E i \in 1..Len(fan.promises) : \E s \in Settlements(i) : ImageSettles(i, s)
  \/ AwaitImagesRejected
  \/ AwaitImagesFulfilled

SpecFan == FanInit /\ [][FanNext]_vars

(***************************************************************************)
(* StorySession: the story_sessions table.  A row holds uuid,              *)
(* initialBriefing, sceneCount and the current_story_state column, a JSON  *)
(* text written by `prepare` and read back by `consume`.  A JSON text is   *)
(* modelled by the value it parses to, as a model response is.             *)
(***************************************************************************)
\* SQL NULL in the current_story_state column
SqlNull == [c |-> "null", root |-> Undefined]

RECURSIVE Normalize(_)
\* the value the text JSON.stringify(v) parses to: undefined array elements
\* become null, properties holding undefined are dropped
Normalize(v) ==
  CASE v.t = "array" ->
         Arr([i \in 1..Len(v.a) |->
                IF v.a[i].t = "undefined" THEN Null ELSE Normalize(v.a[i])])
    [] v.t = "object" ->
         Obj([k \in {j \in DOMAIN v.o : v.o[j].t # "undefined"} |-> Normalize(v.o[k])])
    [] OTHER -> v

JSONstringify(v) == Json(Normalize(v))

prepareNonEmpty(value) ==
  IF Truthy(value) /\ Length(value) # Num(0) THEN JSONstringify(value) ELSE SqlNull

\* prepare: (value) => (value ? JSON.stringify(value) : null)
prepare(value) == IF Truthy(value) THEN JSONstringify(value) ELSE SqlNull

\* consume: (value) => (value ? JSON.parse(value) : null)
consume(column) == IF column.c = "json" THEN JSONparse(column).value ELSE Null

\* the uuids randomUUID() draws, one per row the table comes to hold
Uuids == {1}

\* @beforeCreate generateUuid: randomUUID() is a uuid no row has yet
generateUuid(table) ==
  CHOOSE u \in Uuids : \A i \in 1..Len(table) : table[i].uuid # u

\* StorySession.findByOrFail('uuid', id): the row's position, or 0
findBy(table, uuid) ==
  IF \E i \in 1..Len(table) : table[i].uuid = uuid
  THEN CHOOSE i \in 1..Len(table) : table[i].uuid = uuid
  ELSE 0

(***************************************************************************)
(* SpecText: the two text stages, and the write and reload of the          *)
(* current_story_state column, each applied to every input.                *)
(***************************************************************************)
\* stories after generateFinalImages, with the URLs and '' in place
FinalizedStories ==
  {finalizedScenes(SceneList(n).a, [i \in 1..n |-> Url(i)]).value : n \in 0..MaxLen}

\* a scene in memory with a field set to undefined, which has no JSON form
HalfScene == Spread(Scene(1), [k \in {"dialogue"} |-> Undefined])

\* what can be assigned to session.currentStoryState
StoredValues ==
  StoryArrays \cup NonArrays \cup FinalizedStories
    \cup {Arr(<<Undefined>>), Arr(<<HalfScene>>), Arr(<<Scene(1), HalfScene>>)}

TextInit ==
  /\ sessions = <<>>
  /\ req = <<>>
  /\ fan = FanIdle
  /\ txt \in
       {[pc |-> "call", fn |-> "generateLinearStory", sceneCount |-> n,
         existingStory |-> Undefined, content |-> c, out |-> Thrown] :
          n \in MinSceneCount..MaxSceneCount,
          c \in StoryContents(StoryArrays \cup NonArrays)}
       \cup
       {[pc |-> "call", fn |-> "refineStory", sceneCount |-> 0,
         existingStory |-> e, content |-> c, out |-> Thrown] :
          e \in ExistingStories, c \in StoryContents(StoryArrays \cup NonArrays)}
       \cup
       {[pc |-> "call", fn |-> "saveAndReload", sceneCount |-> 0,
         existingStory |-> v, content |-> EmptyContent, out |-> Thrown] :
          v \in StoredValues}

CallGenerateLinearStory ==
  /\ txt.pc = "call" /\ txt.fn = "generateLinearStory"
  /\ txt' = [txt EXCEPT !.pc = "returned",
                        !.out = generateLinearStory(txt.content, txt.sceneCount)]
  /\ UNCHANGED <<sessions, req, fan>>

CallRefineStory ==
  /\ txt.pc = "call" /\ txt.fn = "refineStory"
  /\ txt' = [txt EXCEPT !.pc = "returned",
                        !.out = refineStory(txt.existingStory, txt.content)]
  /\ UNCHANGED <<sessions, req, fan>>

\* session.currentStoryState = value, save(), and the session loaded again:
\* `prepare` writes the column, which is NOT NULL, and `consume` reads it
CallSaveAndReload ==
  /\ txt.pc = "call" /\ txt.fn = "saveAndReload"
  /\ LET column == prepare(txt.existingStory)
     IN txt' = [txt EXCEPT !.pc = "returned",
                           !.content = column,
                           !.out = IF column = SqlNull THEN Thrown
                                   ELSE Returned(consume(column), FALSE)]
  /\ UNCHANGED <<sessions, req, fan>>

TextNext == CallGenerateLinearStory \/ CallRefineStory \/ CallSaveAndReload

SpecText == TextInit /\ [][TextNext]_vars

(***************************************************************************)
(* Requests.  Each slot of req runs one HTTP request at a time:            *)
(*   op       the route handler                                            *)
(*   pc       idle, text (awaiting a chat completion), images (awaiting    *)
(*            the image calls), save (awaiting create()/save()), done      *)
(*            (the response is sent, the slot is free for a new request)   *)
(*   status   the HTTP status of the response, 0 before it                 *)
(*   payload  the request body and route parameter                         *)
(*   row      the session row found, 0 if none                             *)
(*   read     session.currentStoryState as loaded                          *)
(*   result   what the service returned                                    *)
(*   textCalls, imageCalls   outbound calls issued by the request          *)
(* A request that ends in an error keeps neither read nor result.          *)
(***************************************************************************)
Requests == {1, 2}

NoPayload == [id |-> 0, briefing |-> 0, sceneCount |-> 0, prompt |-> 0,
              url |-> Undefined, imagePrompt |-> 0, refinementPrompt |-> 0]

ReqIdle == [op |-> "none", pc |-> "idle", status |-> 0, payload |-> NoPayload,
            row |-> 0, read |-> Undefined, result |-> Undefined,
            textCalls |-> 0, imageCalls |-> 0]

\* the vine schema of each handler
ValidStore(p) ==
  /\ p.briefing >= MinBriefingLength
  /\ p.sceneCount >= MinSceneCount /\ p.sceneCount <= MaxSceneCount

ValidUpdate(p) == p.prompt >= MinPromptLength

ValidArtUpdate(p) ==
  /\ p.url.t = "url"
  /\ p.imagePrompt >= MinImagePromptLength
  /\ p.refinementPrompt >= MinRefinementLength

ValidFinal(p) == p.url.t = "url"

Valid(op, p) ==
  CASE op = "stories.store" -> ValidStore(p)
    [] op = "stories.update" -> ValidUpdate(p)
    [] op = "artStyles.update" -> ValidArtUpdate(p)
    [] op = "finalStory.store" -> ValidFinal(p)
    [] OTHER -> TRUE

\* the bodies a client sends: for each schema the valid ones, and one that
\* breaks each rule
StoreInputs ==
  {[NoPayload EXCEPT !.briefing = MinBriefingLength, !.sceneCount = n] :
     n \in {MinSceneCount - 1, MaxSceneCount + 1} \cup MinSceneCount..MaxLen}
    \cup {[NoPayload EXCEPT !.briefing = MinBriefingLength - 1,
                            !.sceneCount = MinSceneCount]}

PromptInputs == {MinPromptLength - 1, MinPromptLength}

UrlInputs == {Url(1), Str(4)}

ArtUpdateInputs ==
  LET ok == [NoPayload EXCEPT !.url = Url(1), !.imagePrompt = MinImagePromptLength,
                              !.refinementPrompt = MinRefinementLength]
  IN {ok, [ok EXCEPT !.url = Str(4)],
      [ok EXCEPT !.imagePrompt = MinImagePromptLength - 1],
      [ok EXCEPT !.refinementPrompt = MinRefinementLength - 1]}

\* the :id of a route: the uuid of a session, or one no session has
IdInputs == Uuids \cup {0}

\* what the story model answers in Spec: scene lists of each length and
\* values that are no array
SysStoryValues ==
  {SceneList(n) : n \in 0..MaxLen} \cup {Num(5), Num(0), Null}

SysStoryContents == StoryContents(SysStoryValues)

\* what the style model answers in Spec
SysStyleContents ==
  {EmptyContent}
    \cup {Json(Obj([k \in {"artStyles"} |-> v])) :
            v \in {Arr([i \in 1..n |-> Style(1)]) : n \in {StyleCount - 1, StyleCount}}
                    \cup {Arr(<<Style(1), Null, Style(1)>>)}}

\* the ways a batch of n image calls can settle
RECURSIVE Batches(_)
Batches(n) ==
  IF n = 0 THEN {<<>>}
  ELSE {Append(b, s) : b \in Batches(n - 1), s \in Settlements(n)}

Respond(q, status) ==
  IF status \in {200, 201} THEN [q EXCEPT !.pc = "done", !.status = status]
  ELSE [q EXCEPT !.pc = "done", !.status = status, !.read = Undefined,
                 !.result = Undefined]

\* the slot is free
Free(r) == req[r].pc \in {"idle", "done"}

Init ==
  /\ sessions = <<>>
  /\ req = [r \in Requests |-> ReqIdle]
  /\ txt = TxtIdle
  /\ fan = FanIdle

(***************************************************************************)
(* StoryGeneratorController.store: POST /stories                           *)
(***************************************************************************)
\* requests in flight that will insert a row
Creating == {q \in Requests : req[q].op = "stories.store" /\ req[q].pc \in {"text", "save"}}

StoreBeginNoValidation(r, p) ==
  /\ Free(r)
  /\ Len(sessions) + Cardinality(Creating) < Cardinality(Uuids)
  /\ LET q == [ReqIdle EXCEPT !.op = "stories.store", !.payload = p]
     IN req' = [req EXCEPT ![r] = [q EXCEPT !.pc = "text", !.textCalls = 1]]
  /\ UNCHANGED <<sessions, txt, fan>>

\* validate the body, then call generateLinearStory
StoreBegin(r, p) ==
  /\ Free(r)
  /\ Len(sessions) + Cardinality(Creating) < Cardinality(Uuids)
  /\ LET q == [ReqIdle EXCEPT !.op = "stories.store", !.payload = p]
     IN req' = [req EXCEPT ![r] =
                  IF ~ValidStore(p) THEN Respond(q, 422)
                  ELSE [q EXCEPT !.pc = "text", !.textCalls = 1]]
  /\ UNCHANGED <<sessions, txt, fan>>

\* generateLinearStory resumes with the completion
StoreGenerated(r, content) ==
  /\ req[r].op = "stories.store" /\ req[r].pc = "text"
  /\ LET initialStory == generateLinearStory(content, req[r].payload.sceneCount)
     IN req' = [req EXCEPT ![r] =
                  IF ~initialStory.ok THEN Respond(@, 500)
                  ELSE [@ EXCEPT !.pc = "save", !.result = initialStory.value]]
  /\ UNCHANGED <<sessions, txt, fan>>

\* StorySession.create({...}) and the 201 response
StoreCreate(r) ==
  /\ req[r].op = "stories.store" /\ req[r].pc = "save"
  /\ LET column == prepare(req[r].result)
     IN IF column = SqlNull
        THEN /\ req' = [req EXCEPT ![r] = Respond(@, 500)]
             /\ UNCHANGED sessions
        ELSE /\ sessions' = Append(sessions,
                  [uuid |-> generateUuid(sessions),
                   initialBriefing |-> req[r].payload.briefing,
                   sceneCount |-> req[r].payload.sceneCount,
                   currentStoryState |-> column])
             /\ req' = [req EXCEPT ![r] =
                          Respond([@ EXCEPT !.row = Len(sessions) + 1], 201)]
  /\ UNCHANGED <<txt, fan>>

(***************************************************************************)
(* StoryGeneratorController.update: PATCH /stories/:id                     *)
(***************************************************************************)
\* find the session, validate the body, then call refineStory
UpdateBegin(r, id, prompt) ==
  /\ Free(r)
  /\ LET p == [NoPayload EXCEPT !.id = id, !.prompt = prompt]
         q == [ReqIdle EXCEPT !.op = "stories.update", !.payload = p]
         row == findBy(sessions, id)
     IN req' = [req EXCEPT ![r] =
                  IF row = 0 THEN Respond(q, 404)
                  ELSE LET session == [q EXCEPT !.row = row,
                                 !.read = consume(sessions[row].currentStoryState)]
                       IN IF ~ValidUpdate(p) THEN Respond(session, 422)
                          ELSE [session EXCEPT !.pc = "text", !.textCalls = 1]]
  /\ UNCHANGED <<sessions, txt, fan>>

\* refineStory resumes with the completion
UpdateRefined(r, content) ==
  /\ req[r].op = "stories.update" /\ req[r].pc = "text"
  /\ LET refinedStory == refineStory(req[r].read, content)
     IN req' = [req EXCEPT ![r] =
                  IF ~refinedStory.ok THEN Respond(@, 500)
                  ELSE [@ EXCEPT !.pc = "save", !.result = refinedStory.value]]
  /\ UNCHANGED <<sessions, txt, fan>>

SaveIfFresh(r) ==
  /\ req[r].pc = "save"
  /\ req[r].op \in {"stories.update", "finalStory.store"}
  /\ LET column == prepare(req[r].result)
         fresh == consume(sessions[req[r].row].currentStoryState) = req[r].read
     IN IF column = SqlNull \/ ~fresh
        THEN /\ req' = [req EXCEPT ![r] = Respond(@, 500)]
             /\ UNCHANGED sessions
        ELSE /\ sessions' = [sessions EXCEPT ![req[r].row].currentStoryState = column]
             /\ req' = [req EXCEPT ![r] = Respond(@, 200)]
  /\ UNCHANGED <<txt, fan>>

SaveWithCount(r) ==
  /\ req[r].pc = "save"
  /\ req[r].op \in {"stories.update", "finalStory.store"}
  /\ LET column == prepare(req[r].result)
     IN IF column = SqlNull
        THEN /\ req' = [req EXCEPT ![r] = Respond(@, 500)]
             /\ UNCHANGED sessions
        ELSE /\ sessions' = [sessions EXCEPT
                  ![req[r].row].currentStoryState = column,
                  ![req[r].row].sceneCount =
                     IF IsArray(req[r].result) THEN Len(req[r].result.a) ELSE @]
             /\ req' = [req EXCEPT ![r] = Respond(@, 200)]
  /\ UNCHANGED <<txt, fan>>

\* session.currentStoryState = result; await session.save(): the UPDATE of
\* the row's column, which the NOT NULL constraint refuses for NULL
Save(r) ==
  /\ req[r].pc = "save"
  /\ req[r].op \in {"stories.update", "finalStory.store"}
  /\ LET column == prepare(req[r].result)
     IN IF column = SqlNull
        THEN /\ req' = [req EXCEPT ![r] = Respond(@, 500)]
             /\ UNCHANGED sessions
        ELSE /\ sessions' = [sessions EXCEPT ![req[r].row].currentStoryState = column]
             /\ req' = [req EXCEPT ![r] = Respond(@, 200)]
  /\ UNCHANGED <<txt, fan>>

(***************************************************************************)
(* ArtStylesController.show: GET /art-styles/:id                           *)
(***************************************************************************)
\* find the session, refuse a story with no scene, then call suggestStyles
\* on its first scene (buildPrompt throws when there is none)
ShowBegin(r, id) ==
  /\ Free(r)
  /\ LET p == [NoPayload EXCEPT !.id = id]
         q == [ReqIdle EXCEPT !.op = "artStyles.show", !.payload = p]
         row == findBy(sessions, id)
     IN req' = [req EXCEPT ![r] =
                  IF row = 0 THEN Respond(q, 404)
                  ELSE LET state == consume(sessions[row].currentStoryState)
                           session == [q EXCEPT !.row = row, !.read = state]
                       IN IF ~Truthy(state) \/ Length(state) = Num(0)
                          THEN Respond(session, 400)
                          ELSE IF Throws(Index(state, 0)) THEN Respond(session, 500)
                          ELSE [session EXCEPT !.pc = "text", !.textCalls = 1]]
  /\ UNCHANGED <<sessions, txt, fan>>

\* generateStylePrompts resumes with the completion; the image calls go out
ShowStyles(r, content) ==
  /\ req[r].op = "artStyles.show" /\ req[r].pc = "text"
  /\ LET stylePrompts == generateStylePrompts(Index(req[r].read, 0), content)
         k == FirstThrowing(stylePrompts.value.a)
     IN req' = [req EXCEPT ![r] =
                  IF ~stylePrompts.ok THEN Respond(@, 500)
                  ELSE IF k # 0 THEN Respond([@ EXCEPT !.imageCalls = k - 1], 500)
                  ELSE [@ EXCEPT !.pc = "images", !.result = stylePrompts.value,
                                 !.imageCalls = Len(stylePrompts.value.a)]]
  /\ UNCHANGED <<sessions, txt, fan>>

ShowImagesKeepStyles(r, batch) ==
  /\ req[r].op = "artStyles.show" /\ req[r].pc = "images"
  /\ Len(batch) = Len(req[r].result.a)
  /\ LET suggestions ==
           IF \E i \in 1..Len(batch) : batch[i] = Rejected THEN Thrown
           ELSE finalSuggestions(req[r].result.a, PromiseAll(batch, <<>>))
     IN /\ req' = [req EXCEPT ![r] =
                     IF ~suggestions.ok THEN Respond([@ EXCEPT !.result = Undefined], 500)
                     ELSE Respond([@ EXCEPT !.result = suggestions.value], 200)]
        /\ sessions' = IF ~suggestions.ok THEN sessions
                       ELSE [sessions EXCEPT ![req[r].row].currentStoryState =
                               prepare(suggestions.value)]
  /\ UNCHANGED <<txt, fan>>

\* Promise.all settles; the suggestions are the response body
ShowImages(r, batch) ==
  /\ req[r].op = "artStyles.show" /\ req[r].pc = "images"
  /\ Len(batch) = Len(req[r].result.a)
  /\ LET suggestions ==
           IF \E i \in 1..Len(batch) : batch[i] = Rejected THEN Thrown
           ELSE finalSuggestions(req[r].result.a, PromiseAll(batch, <<>>))
     IN req' = [req EXCEPT ![r] =
                  IF ~suggestions.ok THEN Respond([@ EXCEPT !.result = Undefined], 500)
                  ELSE Respond([@ EXCEPT !.result = suggestions.value], 200)]
  /\ UNCHANGED <<sessions, txt, fan>>

(***************************************************************************)
(* ArtStylesController.update: PATCH /art-styles/:id                       *)
(***************************************************************************)
\* validate the body, then call refineStyle
ArtUpdateBegin(r, p) ==
  /\ Free(r)
  /\ LET q == [ReqIdle EXCEPT !.op = "artStyles.update", !.payload = p]
     IN req' = [req EXCEPT ![r] =
                  IF ~ValidArtUpdate(p) THEN Respond(q, 422)
                  ELSE [q EXCEPT !.pc = "text", !.textCalls = 1]]
  /\ UNCHANGED <<sessions, txt, fan>>

\* getRefinedImagePrompt resumes; the image call goes out
ArtUpdatePrompt(r, content) ==
  /\ req[r].op = "artStyles.update" /\ req[r].pc = "text"
  /\ req' = [req EXCEPT ![r] =
               IF content.c = "empty" THEN Respond(@, 500)
               ELSE [@ EXCEPT !.pc = "images", !.imageCalls = 1]]
  /\ UNCHANGED <<sessions, txt, fan>>

\* the image call settles; the new URL is the response body
ArtUpdateImage(r, s) ==
  /\ req[r].op = "artStyles.update" /\ req[r].pc = "images"
  /\ req' = [req EXCEPT ![r] =
               IF s = Rejected \/ ~Truthy(s.url) THEN Respond(@, 500)
               ELSE Respond([@ EXCEPT !.result = s.url], 201)]
  /\ UNCHANGED <<sessions, txt, fan>>

(***************************************************************************)
(* FinalStoriesController.store: POST /final-story/:sessionId              *)
(***************************************************************************)
\* find the session, validate the body, then call generateFinalImages
FinalBegin(r, id, url) ==
  /\ Free(r)
  /\ LET p == [NoPayload EXCEPT !.id = id, !.url = url]
         q == [ReqIdle EXCEPT !.op = "finalStory.store", !.payload = p]
         row == findBy(sessions, id)
     IN req' = [req EXCEPT ![r] =
                  IF row = 0 THEN Respond(q, 404)
                  ELSE LET session == [q EXCEPT !.row = row,
                                 !.read = consume(sessions[row].currentStoryState)]
                       IN IF ~ValidFinal(p) THEN Respond(session, 422)
                          ELSE [session EXCEPT !.pc = "text", !.textCalls = 1]]
  /\ UNCHANGED <<sessions, txt, fan>>

\* createConsistencyPrompt resumes; scenes.map sends the image calls
FinalPrompt(r, content) ==
  /\ req[r].op = "finalStory.store" /\ req[r].pc = "text"
  /\ LET consistencyPrompt == createConsistencyPrompt(content)
         scenes == req[r].read
         k == FirstThrowing(scenes.a)
     IN req' = [req EXCEPT ![r] =
                  IF ~consistencyPrompt.ok \/ ~IsArray(scenes) THEN Respond(@, 500)
                  ELSE IF k # 0 THEN Respond([@ EXCEPT !.imageCalls = k - 1], 500)
                  ELSE [@ EXCEPT !.pc = "images", !.imageCalls = Len(scenes.a)]]
  /\ UNCHANGED <<sessions, txt, fan>>

FinalImagesPersistPartial(r, batch) ==
  /\ req[r].op = "finalStory.store" /\ req[r].pc = "images"
  /\ Len(batch) = Len(req[r].read.a)
  /\ LET urls == [i \in 1..Len(batch) |->
                    IF Truthy(batch[i].url) THEN batch[i].url ELSE Str(1)]
         finalizedStoryState == finalizedScenes(req[r].read.a, urls)
     IN /\ sessions' = [sessions EXCEPT ![req[r].row].currentStoryState =
                          prepare(finalizedStoryState.value)]
        /\ req' = [req EXCEPT ![r] =
                     IF \E i \in 1..Len(batch) : ~Truthy(batch[i].url)
                     THEN Respond(@, 500)
                     ELSE Respond([@ EXCEPT !.result = finalizedStoryState.value], 200)]
  /\ UNCHANGED <<txt, fan>>

\* Promise.all settles and the last map runs
FinalImages(r, batch) ==
  /\ req[r].op = "finalStory.store" /\ req[r].pc = "images"
  /\ Len(batch) = Len(req[r].read.a)
  /\ LET finalizedStoryState ==
           IF \E i \in 1..Len(batch) : batch[i] = Rejected THEN Thrown
           ELSE finalizedScenes(req[r].read.a, PromiseAll(batch, <<>>))
     IN req' = [req EXCEPT ![r] =
                  IF ~finalizedStoryState.ok THEN Respond(@, 500)
                  ELSE [@ EXCEPT !.pc = "save", !.result = finalizedStoryState.value]]
  /\ UNCHANGED <<sessions, txt, fan>>

Next ==
  \E r \in Requests :
    \/ \E p \in StoreInputs : StoreBegin(r, p)
    \/ \E content \in SysStoryContents : StoreGenerated(r, content)
    \/ StoreCreate(r)
    \/ \E id \in IdInputs, p \in PromptInputs : UpdateBegin(r, id, p)
    \/ \E content \in SysStoryContents : UpdateRefined(r, content)
    \/ Save(r)
    \/ \E id \in IdInputs : ShowBegin(r, id)
    \/ \E content \in SysStyleContents : ShowStyles(r, content)
    \/ \E batch \in Batches(StyleCount) : ShowImages(r, batch)
    \/ \E p \in ArtUpdateInputs : ArtUpdateBegin(r, p)
    \/ \E content \in PromptContents : ArtUpdatePrompt(r, content)
    \/ \E s \in Settlements(1) : ArtUpdateImage(r, s)
    \/ \E id \in IdInputs, u \in UrlInputs : FinalBegin(r, id, u)
    \/ \E content \in PromptContents : FinalPrompt(r, content)
    \/ \E batch \in Batches(Len(req[r].read.a)) : FinalImages(r, batch)

Spec == Init /\ [][Next]_vars

(***************************************************************************)
(* Claims about the text stages, checked under SpecText.                   *)
(***************************************************************************)
TxtReturned(fn) == txt.pc = "returned" /\ txt.fn = fn

\* the response holds an array under the "story" key of a JSON object
HasStoryArray(content) ==
  /\ content.c = "json"
  /\ ~Throws(content.root)
  /\ IsArray(Get(content.root, "story"))

\* C1: for every sceneCount n in 2..10 and every model response,
\* generateLinearStory either fails or returns an array of exactly n
\* elements; it never returns a list of another length.
C1_GenerateExactCountOrError ==
  TxtReturned("generateLinearStory") /\ txt.out.ok =>
    /\ IsArray(txt.out.value)
    /\ Len(txt.out.value.a) = txt.sceneCount

C1_Witness ==
  /\ TxtReturned("generateLinearStory")
  /\ txt.out.ok
  /\ txt.sceneCount = MinSceneCount + 1
  /\ txt.out.value = SceneList(MinSceneCount + 1)

\* C3: refineStory fails whenever the response is empty or does not hold
\* an array under "story", and whatever it returns is an array.
C3_RefineRejectsNonArray ==
  TxtReturned("refineStory") =>
    /\ ~HasStoryArray(txt.content) => ~txt.out.ok
    /\ txt.out.ok => IsArray(txt.out.value)

\* C4: when the response holds a story array, of whatever length,
\* refineStory does not fail and returns that array, and console.warn
\* runs exactly when its length differs from the existing story's.
C4_RefineAcceptsCountDrift ==
  TxtReturned("refineStory") /\ HasStoryArray(txt.content) =>
    /\ txt.out.ok
    /\ txt.out.value = Get(txt.content.root, "story")
    /\ txt.out.warned <=>
         Length(Get(txt.content.root, "story")) # Length(txt.existingStory)

C4_Witness ==
  /\ TxtReturned("refineStory")
  /\ txt.existingStory = SceneList(3)
  /\ HasStoryArray(txt.content)
  /\ txt.out.ok /\ txt.out.warned
  /\ txt.out.value = SceneList(2)

(***************************************************************************)
(* Claims about the image fan-outs, checked under SpecFan.                 *)
(***************************************************************************)
\* some image call of the batch was rejected or answered without a URL
SomeImageMissing ==
  \E i \in 1..Len(fan.promises) :
    fan.promises[i] \in {Fulfilled(Undefined), Rejected}

\* C7: suggestStyles, when it returns, returns exactly three suggestions,
\* each with an imageUrl; when any of the three image calls yields no
\* URL it does not return, and nothing (no 1 or 2 of 3) is returned.
C7_SuggestThreeOrNothing ==
  fan.stage = "suggestStyles" =>
    /\ fan.pc = "returned" =>
         /\ IsArray(fan.out)
         /\ Len(fan.out.a) = StyleCount
         /\ \A i \in 1..Len(fan.out.a) : Get(fan.out.a[i], "imageUrl").t = "url"
    /\ SomeImageMissing => fan.pc # "returned"
    /\ fan.pc # "returned" => fan.out = Undefined

C7_Witness ==
  /\ fan.stage = "suggestStyles"
  /\ fan.pc = "thrown"
  /\ Len(fan.promises) = StyleCount
  /\ Cardinality({i \in 1..StyleCount : fan.promises[i] = Fulfilled(Url(i))})
       = StyleCount - 1
  /\ \E i \in 1..StyleCount : fan.promises[i] = Fulfilled(Undefined)
  /\ fan.out = Undefined

\* C8: when generateFinalImages succeeds, the output has the length and
\* the sequence of ids of the input, each characterImagePrompt is the URL
\* returned for that scene, and each backgroundPrompt is the empty string.
C8_FinalImagesOutput ==
  fan.stage = "generateFinalImages" /\ fan.pc = "returned" =>
    /\ IsArray(fan.out)
    /\ Len(fan.out.a) = Len(fan.input.a)
    /\ \A i \in 1..Len(fan.out.a) :
         /\ Get(fan.out.a[i], "id") = Get(fan.input.a[i], "id")
         /\ Get(fan.out.a[i], "characterImagePrompt") = fan.promises[i].url
         /\ Get(fan.out.a[i], "characterImagePrompt").t = "url"
         /\ Get(fan.out.a[i], "backgroundPrompt") = Str(0)

C8_Witness ==
  /\ fan.stage = "generateFinalImages"
  /\ fan.pc = "returned"
  /\ fan.input = Arr(<<Scene(2), Scene(1)>>)
  /\ Get(fan.out.a[1], "id") = Num(2)
  /\ Get(fan.out.a[2], "id") = Num(1)

\* where a stage puts the image URL of an item
UrlField == IF fan.stage = "suggestStyles" THEN "imageUrl" ELSE "characterImagePrompt"

\* C9: in either fan-out the i-th output item carries the URL produced by
\* the call issued for the i-th input, in whatever order the calls settle.
C9_FanOutByPosition ==
  fan.pc = "returned" =>
    /\ Len(fan.out.a) = Len(fan.items)
    /\ \A i \in 1..Len(fan.out.a) : Get(fan.out.a[i], UrlField) = Url(i)

\* the last call of the batch settled first
C9_Witness ==
  /\ fan.pc = "returned"
  /\ fan.stage = "suggestStyles"
  /\ fan.order = <<3, 1, 2>>
  /\ \A i \in 1..StyleCount : Get(fan.out.a[i], "imageUrl") = Url(i)

(***************************************************************************)
(* Claims about the handlers and the session table, checked under Spec.    *)
(***************************************************************************)
Writers == {"stories.update", "finalStory.store"}

\* currentStoryState of row i, as a handler loads it
Persisted(i) == consume(sessions[i].currentStoryState)

\* C2: in every reachable state the persisted currentStoryState of every
\* session is a well-formed sequence of Scene: an array whose elements
\* each have the six Scene fields.
C2_PersistedStateIsSceneList ==
  \A i \in 1..Len(sessions) : IsSceneList(Persisted(i))

\* the step ends request r with an error response
Fails(r) ==
  /\ req'[r] # req[r]
  /\ req'[r].pc = "done"
  /\ req'[r].status \notin {200, 201}

\* the step is the last of request r, which responds 200 or 201
Succeeds(r) ==
  /\ req[r].pc = "save"
  /\ req'[r].pc = "done"
  /\ req'[r].status \in {200, 201}

\* C5: a step in which a request fails, at whatever stage (text call
\* empty or invalid, an image call of the batch rejected or without URL,
\* the write refused), leaves every session as it was, and the table
\* changes only in the last step of a request that succeeds: a failed
\* refine or finalize persists nothing, a failed create inserts no row.
C5_FailurePersistsNothing ==
  [][/\ \A r \in Requests : Fails(r) => sessions' = sessions
     /\ sessions' # sessions => \E r \in Requests : Succeeds(r)]_vars

\* a finalize request failed in its image batch, and the story is still
\* the one it read
C5_Witness ==
  \E r \in Requests :
    /\ req[r].op = "finalStory.store"
    /\ req[r].pc = "done" /\ req[r].status = 500
    /\ req[r].imageCalls = 2
    /\ Persisted(req[r].row) = SceneList(2)

\* C6: nothing orders two requests that write one session: a request
\* that has changed the story it read writes its result whatever the row
\* holds by then, also when another request has written since the read;
\* the row then holds the result of the request that wrote last, and a
\* finalize result is the finalized form of the story the request read.
C6_LastWriteWins ==
  [][\A r \in Requests :
       /\ req[r].pc = "save" /\ req[r].op \in Writers
       /\ req'[r].pc = "done"
       /\ req[r].result # req[r].read
       /\ prepare(req[r].result) # SqlNull
       => /\ req'[r].status = 200
          /\ sessions'[req[r].row].currentStoryState = prepare(req[r].result)
          /\ req[r].op = "finalStory.store" =>
               req[r].result =
                 finalizedScenes(req[r].read.a,
                                 [i \in 1..Len(req[r].read.a) |-> Url(i)]).value]_vars

\* both requests read the same story, both wrote; the row holds the
\* finalized form of the story read, and the refinement is lost
C6_Witness ==
  \E r1, r2 \in Requests :
    /\ req[r1].op = "stories.update" /\ req[r2].op = "finalStory.store"
    /\ req[r1].pc = "done" /\ req[r1].status = 200
    /\ req[r2].pc = "done" /\ req[r2].status = 200
    /\ req[r1].row = req[r2].row
    /\ req[r1].read = req[r2].read
    /\ req[r1].result # req[r1].read
    /\ req[r1].result # req[r2].result
    /\ Len(req[r1].result.a) # Len(req[r1].read.a)
    /\ sessions[req[r2].row].currentStoryState = prepare(req[r2].result)
    /\ sessions[req[r2].row].currentStoryState # prepare(req[r1].result)

\* the step starts request r with a body its schema refuses
StartsInvalid(r) ==
  /\ req'[r] # req[r]
  /\ ~Valid(req'[r].op, req'[r].payload)

\* C10 as stated: a request whose input fails validation is rejected with
\* a validation error before any text or image call is issued, and the
\* session store is unchanged.
C10_InvalidInputIsValidationError ==
  [][\A r \in Requests :
       StartsInvalid(r) =>
         /\ req'[r].pc = "done" /\ req'[r].status = 422
         /\ req'[r].textCalls = 0 /\ req'[r].imageCalls = 0
         /\ sessions' = sessions]_vars

\* C10, amended: such a request is rejected before any text or image call
\* is issued and the session store is unchanged; the error is a
\* validation error, or, for refine and finalize, which look the session
\* up before they validate, not-found when no session has the id.
C10_InvalidInputRejectedBeforeCalls ==
  [][\A r \in Requests :
       StartsInvalid(r) =>
         /\ req'[r].pc = "done"
         /\ \/ req'[r].status = 422
            \/ /\ req'[r].status = 404
               /\ req'[r].op \in Writers
               /\ findBy(sessions, req'[r].payload.id) = 0
         /\ findBy(sessions, req'[r].payload.id) # 0 => req'[r].status = 422
         /\ req'[r].op \notin Writers => req'[r].status = 422
         /\ req'[r].textCalls = 0 /\ req'[r].imageCalls = 0
         /\ sessions' = sessions]_vars

\* a finalize request on an existing session with a referenceImageUrl
\* that is no URL was refused
C10_Witness ==
  \E r \in Requests :
    /\ req[r].op = "finalStory.store"
    /\ req[r].payload.url.t # "url"
    /\ req[r].row # 0
    /\ req[r].pc = "done" /\ req[r].status = 422
    /\ req[r].textCalls = 0 /\ req[r].imageCalls = 0

\* the step in which request r inserts its row
Inserts(r) ==
  /\ req[r].op = "stories.store" /\ req[r].pc = "save"
  /\ req'[r].status = 201
  /\ Len(sessions') = Len(sessions) + 1

\* C11: every row is inserted with a uuid, and no step (refine,
\* suggest-styles, refine-style, finalize, in any sequence) removes a row
\* or changes its uuid, initialBriefing or sceneCount: they stay the
\* values the create request gave them, and only currentStoryState
\* changes.
C11_CreationColumnsFrozen ==
  [][/\ Len(sessions') >= Len(sessions)
     /\ \A i \in 1..Len(sessions) :
          /\ sessions'[i].uuid = sessions[i].uuid
          /\ sessions'[i].initialBriefing = sessions[i].initialBriefing
          /\ sessions'[i].sceneCount = sessions[i].sceneCount
     /\ \A i \in (Len(sessions) + 1)..Len(sessions') :
          /\ sessions'[i].uuid \in Uuids
          /\ \A j \in 1..Len(sessions) : sessions[j].uuid # sessions'[i].uuid
          /\ \E r \in Requests :
               /\ Inserts(r)
               /\ sessions'[i].initialBriefing = req[r].payload.briefing
               /\ sessions'[i].sceneCount = req[r].payload.sceneCount]_vars

\* a session created with two scenes was refined to one scene and then
\* finalized; its sceneCount is still two
C11_Witness ==
  \E i \in 1..Len(sessions) :
    /\ sessions[i].uuid \in Uuids
    /\ sessions[i].initialBriefing = MinBriefingLength
    /\ sessions[i].sceneCount = MinSceneCount
    /\ IsArray(Persisted(i))
    /\ Len(Persisted(i).a) = MinSceneCount - 1
    /\ Get(Persisted(i).a[1], "characterImagePrompt") = Url(1)


(***************************************************************************)
(* Claims about the current_story_state column, checked under SpecText.   *)
(***************************************************************************)
\* C12: a valid scene list, the empty list included, written to the
\* column and loaded again is a list of the same length whose scenes have
\* the same field values in the same order.
C12_SceneListRoundTrip ==
  TxtReturned("saveAndReload") /\ IsSceneList(txt.existingStory) =>
    /\ txt.out.ok
    /\ IsArray(txt.out.value)
    /\ Len(txt.out.value.a) = Len(txt.existingStory.a)
    /\ \A i \in 1..Len(txt.existingStory.a) :
         /\ IsScene(txt.out.value.a[i])
         /\ \A k \in SceneKeys :
              Get(txt.out.value.a[i], k) = Get(txt.existingStory.a[i], k)

\* the empty list was written as the text "[]" and loaded as an empty list
C12_Witness ==
  /\ TxtReturned("saveAndReload")
  /\ txt.existingStory = Arr(<<>>)
  /\ txt.content = Json(Arr(<<>>))
  /\ txt.out.ok
  /\ txt.out.value = Arr(<<>>)


(***************************************************************************)
(* Claims about the art style and final story handlers, checked under      *)
(* Spec.                                                                   *)
(***************************************************************************)
\* the step starts a suggest-art-styles request r on an existing session
BeginsShow(r) ==
  /\ Free(r)
  /\ req'[r] # req[r]
  /\ req'[r].op = "artStyles.show"
  /\ findBy(sessions, req'[r].payload.id) # 0

\* C13: a suggest-art-styles request for a session whose story is empty
\* is answered 400 by the controller with no text or image call issued,
\* and whenever the controller does invoke suggestStyles the story is a
\* non-empty list and the input is its first scene.
C13_SuggestOnlyOnFirstScene ==
  [][\A r \in Requests :
       BeginsShow(r) =>
         LET state == Persisted(findBy(sessions, req'[r].payload.id))
         IN /\ state = Arr(<<>>) =>
                 /\ req'[r].pc = "done" /\ req'[r].status = 400
                 /\ req'[r].textCalls = 0 /\ req'[r].imageCalls = 0
            /\ req'[r].status # 400 =>
                 /\ IsArray(state)
                 /\ Len(state.a) > 0
                 /\ req'[r].pc = "text"
                 /\ Index(req'[r].read, 0) = state.a[1]]_vars


\* C14: whenever generateFinalImages has been invoked by a finalize
\* request, also after a refinement that changed the number of scenes,
\* the scenes it was invoked with are not the empty list.
C14_FinalizeOnlyNonEmpty ==
  \A r \in Requests :
    req[r].op = "finalStory.store" /\ req[r].pc \in {"text", "images", "save"} =>
      Length(req[r].read) # Num(0)


(***************************************************************************)
(* Further claims about the image fan-outs, checked under SpecFan.         *)
(***************************************************************************)
IsStyle(v) ==
  /\ v.t = "object"
  /\ DOMAIN v.o = {"name", "description", "imagePrompt"}
  /\ \A k \in DOMAIN v.o : v.o[k].t = "string"

\* the text step of the stage has produced what the stage needs: exactly
\* three styles, respectively a consistency prompt that is not empty
TextStepSucceeded ==
  IF fan.stage = "suggestStyles"
  THEN /\ IsArray(fan.textOut)
       /\ Len(fan.textOut.a) = StyleCount
       /\ \A i \in 1..Len(fan.textOut.a) : IsStyle(fan.textOut.a[i])
  ELSE fan.textOut.t = "string" /\ fan.textOut.n > 0

\* C15: in suggestStyles and generateFinalImages at most one text call is
\* made; image calls are issued only once it has succeeded (three valid
\* styles, respectively a non-empty consistency prompt), none when it has
\* failed, and on success exactly three, respectively one per scene, with
\* no call issued again.
C15_ImagesOnlyAfterText ==
  /\ fan.textCalls <= 1
  /\ fan.pc = "text" => fan.imageCalls = 0
  /\ fan.pc # "text" /\ ~TextStepSucceeded => fan.imageCalls = 0
  /\ fan.pc # "text" /\ TextStepSucceeded =>
       fan.imageCalls = IF fan.stage = "suggestStyles" THEN StyleCount
                        ELSE Len(fan.input.a)


(***************************************************************************)
(* Further claims about the handlers and the session table, checked under  *)
(* Spec.                                                                   *)
(***************************************************************************)
ArtStyleOps == {"artStyles.show", "artStyles.update"}

\* C16: no step of a suggest-art-styles or refine-one-art-style request,
\* whether the request succeeds or fails, changes any session row.
C16_ArtStylesReadOnly ==
  [][\A r \in Requests :
       req'[r] # req[r] /\ req'[r].op \in ArtStyleOps => sessions' = sessions]_vars

\* a suggest-art-styles request has answered with three suggestions and a
\* refine-one-art-style request has failed; the session is as created
C16_Witness ==
  \E r1, r2 \in Requests :
    /\ req[r1].op = "artStyles.show"
    /\ req[r1].pc = "done" /\ req[r1].status = 200
    /\ req[r1].imageCalls = StyleCount
    /\ Len(req[r1].result.a) = StyleCount
    /\ req[r2].op = "artStyles.update"
    /\ req[r2].pc = "done" /\ req[r2].status = 500
    /\ req[r2].imageCalls = 1
    /\ sessions[req[r1].row].currentStoryState = prepare(SceneList(MinSceneCount))


\* C17: in the step in which a create-story request succeeds, the row it
\* inserts holds a story whose length is the row's sceneCount.
C17_CreatedLengthIsSceneCount ==
  [][\A r \in Requests :
       Inserts(r) =>
         LET i == Len(sessions')
             story == consume(sessions'[i].currentStoryState)
         IN /\ req'[r].row = i
            /\ IsArray(story)
            /\ Len(story.a) = sessions'[i].sceneCount
            /\ sessions'[i].sceneCount = req[r].payload.sceneCount]_vars

\* a create-story request for two scenes has answered 201 and the row
\* holds two scenes
C17_Witness ==
  \E r \in Requests :
    /\ req[r].op = "stories.store"
    /\ req[r].pc = "done" /\ req[r].status = 201
    /\ req[r].payload.sceneCount = MinSceneCount
    /\ sessions[req[r].row].sceneCount = MinSceneCount
    /\ Persisted(req[r].row) = SceneList(MinSceneCount)


(***************************************************************************)
(* A further claim about generateFinalImages, checked under SpecFan.       *)
(***************************************************************************)
KeptKeys == {"id", "narrator", "character", "dialogue"}

\* C18: when generateFinalImages succeeds, every scene of the output has
\* the id, narrator, character and dialogue of the input scene at its
\* position, and no property other than characterImagePrompt and
\* backgroundPrompt differs between the two.
C18_FinalImagesKeepsText ==
  fan.stage = "generateFinalImages" /\ fan.pc = "returned" =>
    /\ Len(fan.out.a) = Len(fan.input.a)
    /\ \A i \in 1..Len(fan.input.a) :
         /\ \A k \in KeptKeys : Get(fan.out.a[i], k) = Get(fan.input.a[i], k)
         /\ \A k \in (DOMAIN fan.out.a[i].o \cup DOMAIN fan.input.a[i].o)
                       \ {"characterImagePrompt", "backgroundPrompt"} :
              Get(fan.out.a[i], k) = Get(fan.input.a[i], k)

\* two scenes were finalized: the second still has its own texts, and its
\* two prompts are no longer those of the input
C18_Witness ==
  /\ fan.stage = "generateFinalImages"
  /\ fan.pc = "returned"
  /\ fan.input = SceneList(2)
  /\ \A k \in KeptKeys : Get(fan.out.a[2], k) = Get(Scene(2), k)
  /\ Get(fan.out.a[2], "narrator") = Str(2)
  /\ Get(fan.out.a[2], "characterImagePrompt") # Get(Scene(2), "characterImagePrompt")
  /\ Get(fan.out.a[2], "backgroundPrompt") # Get(Scene(2), "backgroundPrompt")


====
